---- MODULE Spec2Model ----
(***************************************************************************)
(* A model of src/main.py: the shopping-item service.  One SQLite table    *)
(* (shopping_items), five SQLAlchemy data-access functions and the five    *)
(* FastAPI endpoints built on them.                                        *)
(*                                                                         *)
(* Spec      : requests handled one at a time, one action per endpoint,    *)
(*             each action the whole handler (validation, storage call,    *)
(*             response).                                                  *)
(* SpecConc  : requests handled concurrently (FastAPI runs "def" endpoints *)
(*             in a thread pool), one action per database round trip of a  *)
(*             handler, each request with its own session.                 *)
(* SpecFair  : SpecConc with weak fairness on every request's next step.   *)
(***************************************************************************)
EXTENDS Integers, Sequences, FiniteSets, TLC

\* ------------------------------------------------------------------ bounds
\* Largest primary key the model lets the table hold: an INSERT that would
\* assign a larger id is not taken.
MaxId == 2

\* Number of requests served at the same time in SpecConc / SpecFair.
NumReq == 2

\* Largest primary key the table holds in SpecConc / SpecFair.
ConcMaxId == 1

\* ------------------------------------------------- program constants
\* read_items / get_shopping_items: limit: int = 100
DefaultLimit == 100
\* read_items / get_shopping_items: skip: int = 0
DefaultSkip == 0

\* ------------------------------------------------------------ JSON values
\* A JSON / SQL value: null, an integer, a string (a sequence of characters),
\* or "missing" for a key or query parameter the client did not send.
JNull == [k |-> "null", i |-> 0, s |-> <<>>]
JMissing == [k |-> "missing", i |-> 0, s |-> <<>>]
JInt(n) == [k |-> "int", i |-> n, s |-> <<>>]
JStr(str) == [k |-> "str", i |-> 0, s |-> str]

Digits == {"0", "1", "2", "3", "4", "5", "6", "7", "8", "9"}

DigitVal(c) ==
  CASE c = "0" -> 0 [] c = "1" -> 1 [] c = "2" -> 2 [] c = "3" -> 3
    [] c = "4" -> 4 [] c = "5" -> 5 [] c = "6" -> 6 [] c = "7" -> 7
    [] c = "8" -> 8 [] c = "9" -> 9

RECURSIVE ParseDigits(_)
ParseDigits(str) ==
  IF str = <<>> THEN 0
  ELSE 10 * ParseDigits(SubSeq(str, 1, Len(str) - 1)) + DigitVal(str[Len(str)])

\* ------------------------------------------------------- request inputs
Payload(name, quantity, description) ==
  [name |-> name, quantity |-> quantity, description |-> description]

\* Bodies whose every value has the declared JSON type.  Four items, chosen
\* so that every two of the three fields take all four combinations of their
\* two values; the description is null by omission in one and explicitly in
\* another.
WellFormed ==
  {Payload(JStr(<<"a">>), JInt(1), JMissing),
   Payload(JStr(<<"a">>), JInt(2), JStr(<<"d">>)),
   Payload(JStr(<<"b">>), JInt(1), JStr(<<"d">>)),
   Payload(JStr(<<"b">>), JInt(2), JNull)}

\* Bodies with a key missing or a value of another JSON type.
Malformed ==
  {Payload(JMissing, JInt(1), JNull),
   Payload(JStr(<<"a">>), JMissing, JNull),
   Payload(JNull, JInt(1), JNull),
   Payload(JInt(7), JInt(1), JNull),
   Payload(JStr(<<"a">>), JNull, JStr(<<"d">>)),
   Payload(JStr(<<"a">>), JStr(<<"x">>), JStr(<<"d">>)),
   Payload(JStr(<<"a">>), JStr(<<"2">>), JStr(<<"d">>)),
   Payload(JStr(<<"b">>), JStr(<<"1">>), JStr(<<"d">>)),
   Payload(JStr(<<"a">>), JInt(1), JInt(7))}

RawPayloads == WellFormed \cup Malformed

QueryValues == {JMissing, JInt(0), JInt(1), JInt(2)}

Ids == 1..MaxId

\* ------------------------------------------------------- pydantic schemas
\* The validated request body when the body is rejected.
NoItem == [name |-> JNull, quantity |-> JNull, description |-> JNull]

\* name: str -- required; pydantic accepts a JSON string only.
ValidName(v) == v.k = "str"

\* quantity: int -- required; pydantic (lax mode, FastAPI's default) accepts
\* a JSON integer, and a JSON string of decimal digits, which it converts.
MutValidQuantity(v) ==
  \/ v.k \in {"int", "null"}
  \/ /\ v.k = "str"
     /\ Len(v.s) > 0
     /\ \A n \in 1..Len(v.s) : v.s[n] \in Digits

ValidQuantity(v) ==
  \/ v.k = "int"
  \/ /\ v.k = "str"
     /\ Len(v.s) > 0
     /\ \A n \in 1..Len(v.s) : v.s[n] \in Digits

CoerceQuantity(v) == IF v.k = "str" THEN JInt(ParseDigits(v.s)) ELSE v

\* description: str | None = None -- a string or null; null when omitted.
ValidDescription(v) == v.k \in {"str", "null", "missing"}

CoerceDescription(v) == IF v.k = "missing" THEN JNull ELSE v

\* ShoppingItemCreate: the body as the endpoint receives it, or a 422.
ShoppingItemCreate(raw) ==
  IF ValidName(raw.name) /\ ValidQuantity(raw.quantity)
       /\ ValidDescription(raw.description)
  THEN [ok |-> TRUE,
        item |-> [name |-> raw.name,
                  quantity |-> CoerceQuantity(raw.quantity),
                  description |-> CoerceDescription(raw.description)]]
  ELSE [ok |-> FALSE, item |-> NoItem]

\* skip: int = 0, limit: int = 100
QueryInt(v, default) == IF v.k = "missing" THEN default ELSE v.i

\* ------------------------------------------------------------ the table
\* A row of shopping_items.  None is "no row" (query.first() returning None);
\* SQLite rowids start at 1.
None == [id |-> 0, name |-> JNull, quantity |-> JNull, description |-> JNull]

\* class ShoppingItem(Base): the row an item is stored as under a given id.
MutShoppingItem(id, item) ==
  [id |-> id, name |-> item.name, quantity |-> JInt(1),
   description |-> item.description]

ShoppingItem(id, item) ==
  [id |-> id, name |-> item.name, quantity |-> item.quantity,
   description |-> item.description]

MaxOf(S) == CHOOSE m \in S : \A x \in S : x <= m
MinOf(S) == CHOOSE m \in S : \A x \in S : m <= x

\* id = Column(Integer, primary_key=True) on SQLite is an alias of the rowid
\* and is declared without AUTOINCREMENT: an INSERT gives the row one more
\* than the largest rowid now in the table (1 in an empty table).
NextRowid(tbl) == IF DOMAIN tbl = {} THEN 1 ELSE MaxOf(DOMAIN tbl) + 1

\* db.query(ShoppingItem).filter(ShoppingItem.id == item_id).first()
SelectById(tbl, id) == IF id \in DOMAIN tbl THEN tbl[id] ELSE None

\* db.add(db_item); db.commit(): INSERT of the item, the id left to SQLite.
Insert(tbl, item) ==
  [n \in DOMAIN tbl \cup {NextRowid(tbl)} |->
     IF n \in DOMAIN tbl THEN tbl[n] ELSE ShoppingItem(n, item)]

\* The columns the unit of work writes at flush: those whose new value
\* differs from the value the session loaded.
Changed(loaded, item) ==
  {c \in {"name", "quantity", "description"} : item[c] # loaded[c]}

\* db_item.name = ...; db_item.quantity = ...; db_item.description = ...;
\* db.commit(): UPDATE shopping_items SET <changed columns> WHERE id = ?.
\* No statement when nothing changed; StaleDataError when the UPDATE matches
\* no row.
MutFlushUpdate(tbl, loaded, item) ==
  IF loaded.id \notin DOMAIN tbl THEN [tbl |-> tbl, err |-> "StaleDataError"]
  ELSE [tbl |-> [tbl EXCEPT ![loaded.id] =
                   [@ EXCEPT !.name = item.name, !.quantity = item.quantity]],
        err |-> ""]

MutAllFlushUpdate(tbl, loaded, item) ==
  [tbl |-> [n \in DOMAIN tbl |-> ShoppingItem(n, item)], err |-> ""]

FlushUpdate(tbl, loaded, item) ==
  IF Changed(loaded, item) = {} THEN [tbl |-> tbl, err |-> ""]
  ELSE IF loaded.id \notin DOMAIN tbl
  THEN [tbl |-> tbl, err |-> "StaleDataError"]
  ELSE [tbl |-> [tbl EXCEPT ![loaded.id] =
                   [c \in DOMAIN @ |->
                      IF c \in Changed(loaded, item) THEN item[c] ELSE @[c]]],
        err |-> ""]

\* db.delete(db_item); db.commit(): DELETE FROM shopping_items WHERE id = ?.
\* A DELETE that matches no row only warns.
MutFlushDelete(tbl, loaded) == tbl

FlushDelete(tbl, loaded) ==
  [n \in DOMAIN tbl \ {loaded.id} |-> tbl[n]]

\* db.refresh(db_item): SELECT the row again by primary key;
\* InvalidRequestError when it is gone.
Refresh(tbl, id) ==
  IF id \in DOMAIN tbl THEN [row |-> tbl[id], err |-> ""]
  ELSE [row |-> None, err |-> "InvalidRequestError"]

\* The rows in the order a scan of the table yields them: by rowid.
RECURSIVE Scan(_)
Scan(tbl) ==
  IF DOMAIN tbl = {} THEN <<>>
  ELSE LET m == MinOf(DOMAIN tbl)
       IN <<tbl[m]>> \o Scan([n \in DOMAIN tbl \ {m} |-> tbl[n]])

MinNat(a, b) == IF a <= b THEN a ELSE b

\* ------------------------------------------------------ CRUD operations
\* Each returns the table after the call, the row it returns (None: absent)
\* and the exception it raised, if any.
get_shopping_item(tbl, id) ==
  [tbl |-> tbl, row |-> SelectById(tbl, id), err |-> ""]

Mut_get_shopping_items(tbl, skip, limit) ==
  SubSeq(Scan(tbl), 1, MinNat(Len(Scan(tbl)), limit))

\* db.query(ShoppingItem).offset(skip).limit(limit).all()
get_shopping_items(tbl, skip, limit) ==
  SubSeq(Scan(tbl), skip + 1, MinNat(Len(Scan(tbl)), skip + limit))

create_shopping_item(tbl, item) ==
  LET t1 == Insert(tbl, item)
      r == Refresh(t1, NextRowid(tbl))
  IN [tbl |-> t1, row |-> r.row, err |-> r.err]

Mut_update_shopping_item(tbl, id, item) ==
  LET db_item == SelectById(tbl, id)
      t1 == [n \in DOMAIN tbl \cup {id} |->
               IF n = id THEN ShoppingItem(id, item) ELSE tbl[n]]
  IN [tbl |-> t1, row |-> t1[id], err |-> ""]

update_shopping_item(tbl, id, item) ==
  LET db_item == SelectById(tbl, id)
  IN IF db_item = None THEN [tbl |-> tbl, row |-> None, err |-> ""]
     ELSE LET f == FlushUpdate(tbl, db_item, item)
              r == Refresh(f.tbl, id)
          IN IF f.err # "" THEN [tbl |-> f.tbl, row |-> None, err |-> f.err]
             ELSE [tbl |-> f.tbl, row |-> r.row, err |-> r.err]

delete_shopping_item(tbl, id) ==
  LET db_item == SelectById(tbl, id)
  IN IF db_item = None THEN [tbl |-> tbl, row |-> None, err |-> ""]
     ELSE [tbl |-> FlushDelete(tbl, db_item), row |-> db_item, err |-> ""]

\* ------------------------------------------------------------ responses
Response(status, detail, row, items) ==
  [status |-> status, detail |-> detail, row |-> row, items |-> items]

Ok(row) == Response(200, "", row, <<>>)
OkList(items) == Response(200, "", None, items)
\* raise HTTPException(status_code=404, detail="Item not found")
NotFound == Response(404, "Item not found", None, <<>>)
\* FastAPI's answer to a body that fails ShoppingItemCreate.
Unprocessable == Response(422, "validation error", None, <<>>)
\* An exception no handler catches.
ServerError(err) == Response(500, err, None, <<>>)

\* A row-returning endpoint's answer to what the CRUD function gave it.
ItemResponse(r) ==
  IF r.err # "" THEN ServerError(r.err)
  ELSE IF r.row = None THEN NotFound
  ELSE Ok(r.row)

\* ------------------------------------------------------------ endpoints
\* Each returns the table after the request and the response.
create_item(tbl, raw) ==
  LET v == ShoppingItemCreate(raw)
  IN IF ~v.ok THEN [tbl |-> tbl, resp |-> Unprocessable]
     ELSE LET r == create_shopping_item(tbl, v.item)
          IN [tbl |-> r.tbl,
              resp |-> IF r.err # "" THEN ServerError(r.err) ELSE Ok(r.row)]

read_items(tbl, skip, limit) ==
  [tbl |-> tbl,
   resp |-> OkList(get_shopping_items(tbl, QueryInt(skip, DefaultSkip),
                                       QueryInt(limit, DefaultLimit)))]

read_item(tbl, id) ==
  LET r == get_shopping_item(tbl, id)
  IN [tbl |-> r.tbl, resp |-> ItemResponse(r)]

update_item(tbl, id, raw) ==
  LET v == ShoppingItemCreate(raw)
  IN IF ~v.ok THEN [tbl |-> tbl, resp |-> Unprocessable]
     ELSE LET r == update_shopping_item(tbl, id, v.item)
          IN [tbl |-> r.tbl, resp |-> ItemResponse(r)]

delete_item(tbl, id) ==
  LET r == delete_shopping_item(tbl, id)
  IN [tbl |-> r.tbl, resp |-> ItemResponse(r)]

\* ---------------------------------------------------------------- state
VARIABLES
  table,      \* shopping_items: id -> row
  before,     \* Spec: the table as it was when the latest request arrived
  last,       \* Spec: the latest request and its response
  lastWrite,  \* Spec: the latest request that wrote to the table
  created,    \* Spec: the ids create has returned so far
  reqs        \* SpecConc: the request slots

vars == <<table, before, last, lastWrite, created, reqs>>

EmptyTable == [n \in {} |-> None]

\* The body of a request that has none.
NoBody == Payload(JMissing, JMissing, JMissing)

Request(op, id, body, skip, limit, resp) ==
  [op |-> op, item_id |-> id, body |-> body, skip |-> skip, limit |-> limit,
   resp |-> resp]

NoRequest == Request("none", 0, NoBody, JMissing, JMissing, OkList(<<>>))

\* A request slot of the thread pool: where its request is in the handler
\* (pc), the request, the row its session loaded, the response once there is
\* one, and the number of sessions it holds open.
Slot ==
  [pc |-> "idle", op |-> "none", item_id |-> 0, body |-> NoBody,
   loaded |-> None, resp |-> OkList(<<>>), open |-> 0]

Init ==
  /\ table = EmptyTable
  /\ before = EmptyTable
  /\ last = NoRequest
  /\ lastWrite = NoRequest
  /\ created = {}
  /\ reqs = [r \in 1..NumReq |-> Slot]

\* A request that wrote to the table: a create, update or delete that succeeded.
IsWrite(req) ==
  req.op \in {"create", "update", "delete"} /\ req.resp.status = 200

\* The bookkeeping every request of Spec does: r is the endpoint's result.
Served(req, r) ==
  /\ table' = r.tbl
  /\ before' = table
  /\ last' = req
  /\ lastWrite' = IF IsWrite(req) THEN req ELSE lastWrite
  /\ UNCHANGED reqs

\* POST /items/
CreateItem ==
  \E raw \in RawPayloads :
    LET r == create_item(table, raw)
    IN /\ NextRowid(table) <= MaxId
       /\ Served(Request("create", 0, raw, JMissing, JMissing, r.resp), r)
       /\ created' = IF r.resp.status = 200
                     THEN created \cup {r.resp.row.id} ELSE created

\* GET /items/
ReadItems ==
  \E skip \in QueryValues, limit \in QueryValues :
    LET r == read_items(table, skip, limit)
    IN /\ Served(Request("list", 0, NoBody, skip, limit, r.resp), r)
       /\ UNCHANGED created

\* GET /items/{item_id}
ReadItem ==
  \E id \in Ids :
    LET r == read_item(table, id)
    IN /\ Served(Request("get", id, NoBody, JMissing, JMissing, r.resp), r)
       /\ UNCHANGED created

\* PUT /items/{item_id}
UpdateItem ==
  \E id \in Ids, raw \in RawPayloads :
    LET r == update_item(table, id, raw)
    IN /\ Served(Request("update", id, raw, JMissing, JMissing, r.resp), r)
       /\ UNCHANGED created

\* DELETE /items/{item_id}
DeleteItem ==
  \E id \in Ids :
    LET r == delete_item(table, id)
    IN /\ Served(Request("delete", id, NoBody, JMissing, JMissing, r.resp), r)
       /\ UNCHANGED created

Next == CreateItem \/ ReadItems \/ ReadItem \/ UpdateItem \/ DeleteItem

Spec == Init /\ [][Next]_vars


\* ------------------------------------------------ concurrent requests
\* FastAPI runs each "def" endpoint in a worker thread, so requests overlap.
\* Each has its own Session (get_db); a session reads without a transaction
\* and writes in a transaction of its own that begins at the first INSERT,
\* UPDATE or DELETE of a flush and ends at the commit, so every action below
\* is one round trip to SQLite and the table is read or written atomically
\* in each.
Slots == 1..NumReq

ConcIds == 1..ConcMaxId

\* The request bodies of SpecConc / SpecFair.
ConcBodies ==
  {Payload(JStr(<<"a">>), JInt(1), JMissing),
   Payload(JStr(<<"a">>), JInt(2), JStr(<<"d">>)),
   Payload(JStr(<<"b">>), JInt(1), JStr(<<"d">>)),
   Payload(JStr(<<"a">>), JStr(<<"x">>), JStr(<<"d">>))}

At(r, pc) == reqs[r].pc = pc

Seen == UNCHANGED <<before, last, lastWrite, created>>

\* The requests that have yet to INSERT.
Inserting == {r \in Slots : reqs[r].op = "create" /\ reqs[r].pc \in {"get_db", "insert"}}

\* A request arrives and is given a worker thread.
Arrive(r) ==
  /\ reqs[r].pc \in {"idle", "done"}
  /\ \E op \in {"create", "list", "get", "update", "delete"} :
       \E id \in (IF op \in {"create", "list"} THEN {0} ELSE ConcIds) :
         \E body \in (IF op \in {"create", "update"} THEN ConcBodies ELSE {NoBody}) :
           /\ op = "create" =>
                NextRowid(table) + Cardinality(Inserting) <= ConcMaxId
           /\ reqs' = [reqs EXCEPT ![r] =
                         [Slot EXCEPT !.pc = "get_db", !.op = op, !.item_id = id,
                                      !.body = body, !.open = reqs[r].open]]
  /\ UNCHANGED table
  /\ Seen

\* The handler's first round trip to the database.
FirstCall(op) == IF op = "create" THEN "insert" ELSE "select"

\* get_db: "finally: db.close()" runs whatever the endpoint did.
MutFinally(resp) == IF resp.status = 200 THEN "close" ELSE "idle"

Finally(resp) == "close"

\* The request has its response: what is left is get_db's exit.
Respond(r, resp) ==
  reqs' = [reqs EXCEPT ![r] =
             [@ EXCEPT !.pc = Finally(resp), !.resp = resp, !.loaded = None]]

\* get_db: db = SessionLocal(); yield db -- and FastAPI's validation of the
\* body, which touches no storage.
GetDb(r) ==
  /\ At(r, "get_db")
  /\ reqs' = [reqs EXCEPT ![r] =
       IF reqs[r].op \in {"create", "update"}
            /\ ~ShoppingItemCreate(reqs[r].body).ok
       THEN [@ EXCEPT !.open = @ + 1, !.pc = Finally(Unprocessable),
                      !.resp = Unprocessable]
       ELSE [@ EXCEPT !.open = @ + 1, !.pc = FirstCall(reqs[r].op)]]
  /\ UNCHANGED table
  /\ Seen

Item(r) == ShoppingItemCreate(reqs[r].body).item

\* create_shopping_item: db.add(db_item); db.commit()
InsertRow(r) ==
  /\ At(r, "insert")
  /\ table' = Insert(table, Item(r))
  /\ reqs' = [reqs EXCEPT ![r] =
                [@ EXCEPT !.pc = "refresh",
                          !.loaded = ShoppingItem(NextRowid(table), Item(r))]]
  /\ Seen

\* The query each of the other four functions starts with.
Select(r) ==
  /\ At(r, "select")
  /\ LET row == SelectById(table, reqs[r].item_id)
     IN CASE reqs[r].op = "list" ->
               Respond(r, OkList(get_shopping_items(table, DefaultSkip, DefaultLimit)))
          [] reqs[r].op = "get" ->
               Respond(r, ItemResponse(get_shopping_item(table, reqs[r].item_id)))
          [] OTHER ->
               IF row = None THEN Respond(r, NotFound)
               ELSE reqs' = [reqs EXCEPT ![r] =
                               [@ EXCEPT !.pc = "flush", !.loaded = row]]
  /\ UNCHANGED table
  /\ Seen

\* update_shopping_item: the three assignments and db.commit()
FlushUpdateRow(r) ==
  /\ At(r, "flush") /\ reqs[r].op = "update"
  /\ LET f == FlushUpdate(table, reqs[r].loaded, Item(r))
     IN /\ table' = f.tbl
        /\ IF f.err # "" THEN Respond(r, ServerError(f.err))
           ELSE reqs' = [reqs EXCEPT ![r] = [@ EXCEPT !.pc = "refresh"]]
  /\ Seen

\* delete_shopping_item: db.delete(db_item); db.commit(); return db_item
FlushDeleteRow(r) ==
  /\ At(r, "flush") /\ reqs[r].op = "delete"
  /\ table' = FlushDelete(table, reqs[r].loaded)
  /\ Respond(r, Ok(reqs[r].loaded))
  /\ Seen

\* db.refresh(db_item); return db_item
RefreshRow(r) ==
  /\ At(r, "refresh")
  /\ LET f == Refresh(table, reqs[r].loaded.id)
     IN Respond(r, IF f.err # "" THEN ServerError(f.err) ELSE Ok(f.row))
  /\ UNCHANGED table
  /\ Seen

\* The store fails under a round trip (the file is gone, the disk is full):
\* the exception leaves the endpoint uncaught.
StorageFails(r) ==
  /\ reqs[r].pc \in {"insert", "select", "flush", "refresh"}
  /\ Respond(r, ServerError("OperationalError"))
  /\ UNCHANGED table
  /\ Seen

\* get_db: finally: db.close() -- the request is finished.
Close(r) ==
  /\ At(r, "close")
  /\ reqs' = [reqs EXCEPT ![r] =
                [@ EXCEPT !.pc = "done", !.open = @ - 1, !.body = NoBody]]
  /\ UNCHANGED table
  /\ Seen

\* The steps of a request once it has arrived.
Step(r) ==
  \/ GetDb(r)
  \/ InsertRow(r)
  \/ Select(r)
  \/ FlushUpdateRow(r)
  \/ FlushDeleteRow(r)
  \/ RefreshRow(r)
  \/ StorageFails(r)
  \/ Close(r)

NextConc == \E r \in Slots : Arrive(r) \/ Step(r)

SpecConc == Init /\ [][NextConc]_vars

\* The thread pool runs every request it has accepted.
SpecFair == SpecConc /\ \A r \in Slots : WF_vars(Step(r))

\* ------------------------------------------------- vocabulary of the claims
\* A valid payload: name a string, quantity an integer, description a string,
\* null or omitted.
ValidPayload(raw) ==
  /\ raw.name.k = "str"
  /\ raw.quantity.k = "int"
  /\ raw.description.k \in {"str", "null", "missing"}

\* The row's three mutable fields are those of payload raw.
SameFields(row, raw) ==
  /\ row.name = raw.name
  /\ row.quantity = raw.quantity
  /\ row.description =
       IF raw.description.k = "missing" THEN JNull ELSE raw.description

Answered(op) == last.op = op /\ last.resp.status = 200

\* -------------------------------------------------------------------- C1
\* C1: create(P) with a valid payload P returns a record whose name, quantity
\* and description equal P and whose id was not in storage before the call,
\* and a get(id) after it with no write in between returns that same record.
C1_CreateThenGet ==
  /\ (last.op = "create" /\ ValidPayload(last.body)) =>
       /\ last.resp.status = 200
       /\ SameFields(last.resp.row, last.body)
       /\ last.resp.row.id \notin DOMAIN before
  /\ (last.op = "get" /\ lastWrite.op = "create"
        /\ last.item_id = lastWrite.resp.row.id) =>
       last.resp = Ok(lastWrite.resp.row)

\* A get of the id a create returned, with another record stored beside it.
C1_Witness ==
  /\ last.op = "get" /\ lastWrite.op = "create"
  /\ last.item_id = lastWrite.resp.row.id
  /\ last.resp.status = 200
  /\ SameFields(last.resp.row, lastWrite.body)
  /\ Cardinality(DOMAIN table) = 2

\* -------------------------------------------------------------------- C2
\* C2: an id is assigned once and never reused or changed: every id create
\* returns differs from every id an earlier create returned, also when the
\* record of that id has been deleted since, and update never alters the id
\* of a record.
C2_IdsNeverReused ==
  [][/\ (last'.op = "create" /\ last'.resp.status = 200) =>
          last'.resp.row.id \notin created
     /\ (last'.op = "update" /\ last'.resp.status = 200) =>
          /\ last'.resp.row.id = last'.item_id
          /\ DOMAIN table' = DOMAIN table
          /\ \A n \in DOMAIN table' : table'[n].id = n]_vars

\* -------------------------------------------------------------------- C3
\* C3: for an id that is not in storage, get, update (with any payload the
\* endpoint accepts) and delete answer 404 "Item not found" and leave the
\* stored records exactly as they were.
C3_AbsentIsNotFound ==
  (/\ last.op \in {"get", "update", "delete"}
   /\ last.item_id \notin DOMAIN before
   /\ last.op = "update" => ShoppingItemCreate(last.body).ok) =>
    /\ last.resp.status = 404
    /\ last.resp.detail = "Item not found"
    /\ last.resp.row = None
    /\ table = before

\* An update of an absent id while another record is stored.
C3_Witness ==
  /\ last.op = "update" /\ last.item_id \notin DOMAIN before
  /\ ValidPayload(last.body)
  /\ last.resp.status = 404
  /\ DOMAIN table # {}

\* -------------------------------------------------------------------- C4
\* C4: update(id, P) of a stored id with a valid payload P returns a record
\* with the same id whose name, quantity and description all equal P (the
\* description null when P omits it or gives null), and a get(id) after it
\* with no write in between returns that record.
C4_UpdateOverwrites ==
  /\ (last.op = "update" /\ last.item_id \in DOMAIN before
        /\ ValidPayload(last.body)) =>
       /\ last.resp.status = 200
       /\ last.resp.row.id = last.item_id
       /\ SameFields(last.resp.row, last.body)
       /\ table[last.item_id] = last.resp.row
  /\ (last.op = "get" /\ lastWrite.op = "update"
        /\ last.item_id = lastWrite.item_id) =>
       last.resp = Ok(lastWrite.resp.row)

\* A get after an update that replaced a description by null, by a payload
\* that omits it.
C4_Witness ==
  /\ last.op = "get" /\ lastWrite.op = "update"
  /\ last.item_id = lastWrite.item_id
  /\ lastWrite.body.description.k = "missing"
  /\ last.resp.status = 200
  /\ last.resp.row.description = JNull
  /\ last.resp.row.name = lastWrite.body.name

\* -------------------------------------------------------------------- C5
\* C5: delete(id) of a stored id removes the record and returns it as it was
\* just before; a get(id) after it answers 404 "Item not found", and a
\* second delete(id) is answered 404 too.
C5_DeleteRemoves ==
  [][/\ (last'.op = "delete" /\ last'.item_id \in DOMAIN before') =>
          /\ last'.resp = Ok(before'[last'.item_id])
          /\ last'.item_id \notin DOMAIN table'
     /\ (last'.op = "get" /\ lastWrite'.op = "delete"
           /\ last'.item_id = lastWrite'.item_id) =>
          last'.resp = NotFound
     /\ (last'.op = "delete" /\ lastWrite.op = "delete"
           /\ last'.item_id = lastWrite.item_id) =>
          last'.resp = NotFound]_vars

\* A second delete of an id, answered 404, after the first removed it.
C5_Witness ==
  /\ last.op = "delete" /\ lastWrite.op = "delete"
  /\ last.item_id = lastWrite.item_id
  /\ last.resp.status = 404
  /\ lastWrite.resp.row.id = last.item_id
  /\ DOMAIN table # {}

\* -------------------------------------------------------------------- C6
\* C6: list(skip, limit), skip and limit non-negative and 0 and 100 when
\* omitted, returns the stored records by ascending id with the first skip
\* dropped and at most limit of the rest kept: never more than limit
\* records, never a record that is not stored, none on empty storage.
ListSkip == IF last.skip.k = "missing" THEN 0 ELSE last.skip.i
ListLimit == IF last.limit.k = "missing" THEN 100 ELSE last.limit.i

C6_ListWindow ==
  last.op = "list" =>
    LET items == last.resp.items
        n == Cardinality(DOMAIN table)
        rest == IF n > ListSkip THEN n - ListSkip ELSE 0
    IN /\ last.resp.status = 200
       /\ Len(items) = IF rest < ListLimit THEN rest ELSE ListLimit
       /\ \A p \in 1..Len(items) :
            /\ items[p].id \in DOMAIN table
            /\ items[p] = table[items[p].id]
            /\ Cardinality({m \in DOMAIN table : m < items[p].id})
                 = ListSkip + p - 1

\* A list that drops the first record and keeps one of two.
C6_Witness ==
  /\ last.op = "list"
  /\ last.skip = JInt(1) /\ last.limit = JInt(1)
  /\ Cardinality(DOMAIN table) = 2
  /\ Len(last.resp.items) = 1
  /\ last.resp.items[1].id = MaxOf(DOMAIN table)

\* -------------------------------------------------------------------- C7
\* The update of request q has been committed and q is still being served.
Committed(q) ==
  /\ reqs[q].op = "update"
  /\ \/ At(q, "refresh")
     \/ At(q, "close") /\ reqs[q].resp.status = 200

\* C7: each operation is one atomic unit against the store.  When an update
\* of an id by payload P commits while another update of that id, by payload
\* Q, has committed and is still being served, the stored record equals P or
\* Q in all three fields; and the commit of an update never brings back a
\* record a delete removed.
C7_OperationsAtomic ==
  [][\A r \in Slots :
       (reqs[r].op = "update" /\ At(r, "flush") /\ reqs'[r].pc # "flush") =>
         /\ DOMAIN table' \subseteq DOMAIN table
         /\ reqs'[r].pc = "refresh" =>
              \A q \in Slots \ {r} :
                (Committed(q) /\ reqs[q].item_id = reqs[r].item_id) =>
                  /\ reqs[r].item_id \in DOMAIN table'
                  /\ \/ SameFields(table'[reqs[r].item_id], reqs[r].body)
                     \/ SameFields(table'[reqs[r].item_id], reqs[q].body)]_vars

\* -------------------------------------------------------------------- C8
\* A request holds one session from get_db until db.close(), and none before
\* or after.
OneSession ==
  \A r \in Slots :
    reqs[r].open = IF reqs[r].pc \in {"idle", "get_db", "done"} THEN 0 ELSE 1

\* C8: every request acquires exactly one session, and the session is
\* released, once, on every exit path -- a response, a 404, a 422, an
\* exception of the store: no request finishes with its session open.
C8_SessionReleased ==
  /\ []OneSession
  /\ \A r \in Slots :
       At(r, "get_db") ~> (At(r, "done") /\ reqs[r].open = 0)

\* Two requests finished, one answered 404 and one failed by an exception,
\* both sessions closed.
C8_Witness ==
  \E r \in Slots, q \in Slots :
    /\ At(r, "done") /\ reqs[r].resp.status = 404 /\ reqs[r].open = 0
    /\ At(q, "done") /\ reqs[q].resp.status = 500 /\ reqs[q].open = 0

\* -------------------------------------------------------------------- C9
\* C9 as stated: every stored record has a non-null name and quantity, and a
\* payload that lacks name or quantity or gives a value of the wrong type is
\* rejected as a validation error and leaves storage unchanged.
StoredFieldsNonNull ==
  \A n \in DOMAIN table :
    table[n].name.k = "str" /\ table[n].quantity.k = "int"

C9_WrongTypeRejected ==
  /\ StoredFieldsNonNull
  /\ (last.op \in {"create", "update"} /\ ~ValidPayload(last.body)) =>
       (last.resp = Unprocessable /\ table = before)

\* A digit string: what pydantic converts to an integer.
DigitString(v) ==
  v.k = "str" /\ v.s # <<>> /\ \A p \in 1..Len(v.s) : v.s[p] \in Digits

\* The payloads the schema cannot accept: a required key missing, or a value
\* that has not the declared type and is not a digit string given as quantity.
Unacceptable(raw) ==
  \/ raw.name.k # "str"
  \/ ~(raw.quantity.k = "int" \/ DigitString(raw.quantity))
  \/ raw.description.k \notin {"str", "null", "missing"}

\* C9 (amended): every stored record has a non-null name and quantity; a
\* payload that lacks name or quantity, or gives a value that cannot be
\* converted to the declared type, is rejected with 422 and leaves storage
\* unchanged; a quantity given as a string of digits is accepted and stored
\* as that integer.
C9_UnconvertibleRejected ==
  /\ StoredFieldsNonNull
  /\ (last.op \in {"create", "update"} /\ Unacceptable(last.body)) =>
       (last.resp = Unprocessable /\ table = before)
  /\ (last.op = "create" /\ DigitString(last.body.quantity)
        /\ ~Unacceptable(last.body)) =>
       /\ last.resp.status = 200
       /\ last.resp.row.quantity = JInt(ParseDigits(last.body.quantity.s))

\* An update with a non-numeric quantity, rejected, with records stored.
C9_Witness ==
  /\ last.op = "update" /\ last.body.quantity = JStr(<<"x">>)
  /\ last.item_id \in DOMAIN table
  /\ last.resp.status = 422
  /\ table = before

\* ------------------------------------------------------------------- C10
\* C10: create adds exactly one record and leaves the others unchanged;
\* update and delete leave every record of another id unchanged and update
\* keeps the set of stored ids; get and list leave storage unchanged, and a
\* get repeated with no write in between returns the same result.
Untouched(keep) == \A n \in keep : n \in DOMAIN table /\ table[n] = before[n]

C10_Frame ==
  [][LET Frame ==
           /\ Answered("create") =>
                /\ Cardinality(DOMAIN table) = Cardinality(DOMAIN before) + 1
                /\ Untouched(DOMAIN before)
           /\ (last.op = "create" /\ last.resp.status # 200) => table = before
           /\ last.op = "update" =>
                /\ DOMAIN table = DOMAIN before
                /\ Untouched(DOMAIN before \ {last.item_id})
           /\ last.op = "delete" =>
                /\ DOMAIN table = DOMAIN before \ {last.item_id}
                /\ Untouched(DOMAIN before \ {last.item_id})
           /\ last.op \in {"get", "list"} => table = before
     IN /\ Frame'
        /\ (last.op = "get" /\ last'.op = "get"
              /\ last'.item_id = last.item_id) => last'.resp = last.resp]_vars

\* An update of one of two stored records that changed it.
C10_Witness ==
  /\ Answered("update")
  /\ Cardinality(DOMAIN table) = 2
  /\ table[last.item_id] # before[last.item_id]
  /\ \E n \in DOMAIN table : n # last.item_id /\ table[n] = before[n]

====
